---- MODULE Spec2Model ----
(***************************************************************************)
(* A model of vernomic: the Vernomic dataclass (vernomic/vernomic.py), its *)
(* name tables (vernomic/constants.py) and the drivers that use it         *)
(* (examples/, tests/).                                                    *)
(*                                                                         *)
(* A Python str is a sequence of one-character strings, so that joining,   *)
(* splitting, slicing and stripping are computed, not assumed.  A datetime *)
(* is a record of its six integer fields.  A filesystem is a function from *)
(* paths (sequences of component names below the working directory) to     *)
(* directory and file entries.                                             *)
(***************************************************************************)
EXTENDS Integers, Sequences, FiniteSets, TLC

VARIABLES
    self,          \* the Vernomic instance under use, or None
    ret,           \* outcome of the last call: operation, value, exception
    fs,            \* the filesystem below the working directory
    now,           \* the wall clock, as datetime.now() would read it
    date_default,  \* the class-level default of field `date`
    log            \* history: what the drivers built and printed so far

vars == <<self, ret, fs, now, date_default, log>>

None == "None"

(***************************************************************************)
(* Bounds of the model.                                                    *)
(***************************************************************************)
FirstYear == 2023   \* first calendar year the dates are drawn from
NumYears  == 2      \* how many consecutive years (2023 and leap 2024)
NumTimes  == 2      \* how many times of day, taken from TimesOfDay
MaxTicks  == 4      \* clock advances between module load and the last build
MaxBuilt  == 2      \* instances a driver builds without passing a date

(***************************************************************************)
(* Characters and strings.                                                 *)
(***************************************************************************)
CodePoint ==
    ("-" :> 45) @@ ("." :> 46) @@ ("/" :> 47) @@ ("0" :> 48) @@ ("1" :> 49) @@ ("2" :> 50)
 @@ ("3" :> 51) @@ ("4" :> 52) @@ ("5" :> 53) @@ ("6" :> 54) @@ ("7" :> 55) @@ ("8" :> 56)
 @@ ("9" :> 57) @@ (":" :> 58) @@ ("A" :> 65) @@ ("B" :> 66) @@ ("C" :> 67) @@ ("D" :> 68)
 @@ ("E" :> 69) @@ ("F" :> 70) @@ ("G" :> 71) @@ ("H" :> 72) @@ ("I" :> 73) @@ ("J" :> 74)
 @@ ("K" :> 75) @@ ("L" :> 76) @@ ("M" :> 77) @@ ("O" :> 79) @@ ("P" :> 80) @@ ("R" :> 82)
 @@ ("S" :> 83) @@ ("T" :> 84) @@ ("V" :> 86) @@ ("W" :> 87) @@ ("_" :> 95) @@ ("a" :> 97)
 @@ ("b" :> 98) @@ ("c" :> 99) @@ ("d" :> 100) @@ ("e" :> 101) @@ ("f" :> 102) @@ ("g" :> 103)
 @@ ("h" :> 104) @@ ("i" :> 105) @@ ("j" :> 106) @@ ("k" :> 107) @@ ("l" :> 108) @@ ("m" :> 109)
 @@ ("n" :> 110) @@ ("o" :> 111) @@ ("p" :> 112) @@ ("q" :> 113) @@ ("r" :> 114) @@ ("s" :> 115)
 @@ ("t" :> 116) @@ ("u" :> 117) @@ ("v" :> 118) @@ ("w" :> 119) @@ ("x" :> 120) @@ ("y" :> 121)
 @@ ("z" :> 122)

\* Python's str < str: lexicographic by code point, a proper prefix first.
RECURSIVE StrLess(_, _)
StrLess(a, b) ==
    IF b = <<>> THEN FALSE
    ELSE IF a = <<>> THEN TRUE
    ELSE IF Head(a) # Head(b) THEN CodePoint[Head(a)] < CodePoint[Head(b)]
    ELSE StrLess(Tail(a), Tail(b))

\* One step of an insertion sort: x placed before the first larger element.
RECURSIVE Insert(_, _)
Insert(x, s) ==
    IF s = <<>> THEN <<x>>
    ELSE IF StrLess(x, Head(s)) THEN <<x>> \o s
    ELSE <<Head(s)>> \o Insert(x, Tail(s))

\* sorted(list of str): ascending, stable.
RECURSIVE sorted(_)
sorted(s) ==
    IF s = <<>> THEN <<>>
    ELSE Insert(s[Len(s)], sorted(SubSeq(s, 1, Len(s) - 1)))

\* sep.join(parts)
RECURSIVE join(_, _)
join(sep, parts) ==
    IF parts = <<>> THEN <<>>
    ELSE IF Len(parts) = 1 THEN parts[1]
    ELSE parts[1] \o sep \o join(sep, Tail(parts))

\* s.split(c) for a one-character separator c: n occurrences give n + 1
\* tokens, empty ones included.
RECURSIVE split(_, _)
split(s, c) ==
    IF \A k \in 1..Len(s) : s[k] # c THEN <<s>>
    ELSE LET k == CHOOSE j \in 1..Len(s) :
                      s[j] = c /\ \A h \in 1..(j - 1) : s[h] # c
         IN  <<SubSeq(s, 1, k - 1)>> \o split(SubSeq(s, k + 1, Len(s)), c)

\* s.lstrip(c): every leading c removed.
RECURSIVE lstrip(_, _)
lstrip(s, c) ==
    IF s # <<>> /\ Head(s) = c THEN lstrip(Tail(s), c) ELSE s

\* s.endswith(c) for a one-character c.
endswith(s, c) == s # <<>> /\ s[Len(s)] = c

Digits == <<"0", "1", "2", "3", "4", "5", "6", "7", "8", "9">>

\* str(n) for an int n >= 0.
RECURSIVE str_int(_)
str_int(n) ==
    IF n < 10 THEN <<Digits[n + 1]>>
    ELSE str_int(n \div 10) \o <<Digits[(n % 10) + 1]>>

\* f"{n:02d}": str(n) padded on the left with zeros to width 2.
format_02d(n) ==
    LET s == str_int(n) IN IF Len(s) < 2 THEN <<"0">> \o s ELSE s

\* s[-2:]: the last two characters, or all of s when it is shorter.
last_two(s) == IF Len(s) <= 2 THEN s ELSE SubSeq(s, Len(s) - 1, Len(s))

\* f"{n:04d}"
format_04d(n) ==
    LET s == str_int(n)
    IN  IF Len(s) >= 4 THEN s
        ELSE SubSeq(<<"0", "0", "0">>, 1, 4 - Len(s)) \o s

\* s.rfind(c): the 0-based index of the last c in s, or -1.
rfind(s, c) ==
    IF \A k \in 1..Len(s) : s[k] # c THEN -1
    ELSE (CHOOSE j \in 1..Len(s) :
              s[j] = c /\ \A h \in (j + 1)..Len(s) : s[h] # c) - 1

(***************************************************************************)
(* constants.py                                                            *)
(***************************************************************************)
CYCLE_DAYS_RAW ==
  <<
    <<"A","l","p","a","c","a">>,
    <<"C","a","t">>,
    <<"C","a","m","e","l">>,
    <<"C","o","w">>,
    <<"D","o","g">>,
    <<"D","o","l","p","h","i","n">>,
    <<"D","u","c","k">>,
    <<"E","l","e","p","h","a","n","t">>,
    <<"E","a","g","l","e">>,
    <<"F","o","x">>,
    <<"F","r","o","g">>,
    <<"G","i","r","a","f","f","e">>,
    <<"H","o","r","s","e">>,
    <<"I","g","u","a","n","a">>,
    <<"J","a","g","u","a","r">>,
    <<"L","i","o","n">>,
    <<"L","i","z","a","r","d">>,
    <<"M","o","n","k","e","y">>,
    <<"M","o","u","s","e">>,
    <<"O","w","l">>,
    <<"P","a","n","d","a">>,
    <<"P","e","n","g","u","i","n">>,
    <<"R","a","b","b","i","t">>,
    <<"S","q","u","i","r","r","e","l">>,
    <<"S","n","a","k","e">>,
    <<"T","i","g","e","r">>,
    <<"T","u","r","t","l","e">>,
    <<"W","h","a","l","e">> >>

CYCLE_NAMES_RAW ==
  <<
    <<"A","m","b","e","r">>,
    <<"B","r","o","n","z","e">>,
    <<"C","o","r","a","l">>,
    <<"D","i","a","m","o","n","d">>,
    <<"E","m","e","r","a","l","d">>,
    <<"F","u","c","h","s","i","a">>,
    <<"G","o","l","d">>,
    <<"I","n","d","i","g","o">>,
    <<"K","h","a","k","i">>,
    <<"O","n","y","x">>,
    <<"R","u","b","y">>,
    <<"S","i","l","v","e","r">>,
    <<"T","u","r","q","u","o","i","s","e">>,
    <<"V","i","o","l","e","t">> >>

CYCLE_DAYS == sorted(CYCLE_DAYS_RAW)

CYCLE_NAMES == sorted(CYCLE_NAMES_RAW)

\* seq[i] with Python's 0-based index i >= 0 raises IndexError unless
\* i < len(seq).
IndexError == "IndexError"

in_range(seq, i) == i < Len(seq)

getitem(seq, i) == seq[i + 1]

(***************************************************************************)
(* datetime: the proleptic Gregorian calendar of the standard library.     *)
(***************************************************************************)
is_leap(y) == y % 4 = 0 /\ (y % 100 # 0 \/ y % 400 = 0)

DAYS_IN_MONTH == <<31, 28, 31, 30, 31, 30, 31, 31, 30, 31, 30, 31>>

days_in_month(y, m) == IF m = 2 /\ is_leap(y) THEN 29 ELSE DAYS_IN_MONTH[m]

\* Days of the year before the first day of month m.
RECURSIVE days_before_month(_, _)
days_before_month(y, m) ==
    IF m = 1 THEN 0 ELSE days_before_month(y, m - 1) + days_in_month(y, m - 1)

\* date.timetuple().tm_yday: the 1-based day of the year.
tm_yday(d) == days_before_month(d.year, d.month) + d.day

datetime(y, mo, d, h, mi, s) ==
    [year |-> y, month |-> mo, day |-> d, hour |-> h, minute |-> mi, second |-> s]

\* d + timedelta(days=1)
next_day(d) ==
    IF d.day < days_in_month(d.year, d.month) THEN [d EXCEPT !.day = d.day + 1]
    ELSE IF d.month < 12 THEN [d EXCEPT !.day = 1, !.month = d.month + 1]
    ELSE [d EXCEPT !.day = 1, !.month = 1, !.year = d.year + 1]

\* d + timedelta(minutes=1)
next_minute(d) ==
    IF d.minute < 59 THEN [d EXCEPT !.minute = d.minute + 1]
    ELSE IF d.hour < 23 THEN [d EXCEPT !.minute = 0, !.hour = d.hour + 1]
    ELSE next_day([d EXCEPT !.minute = 0, !.hour = 0])


\* date.fromordinal's conversion of a proleptic Gregorian ordinal (day 1 is
\* 0001-01-01) to <<year, month, day>>.
ord2ymd(ordinal) ==
    LET n0   == ordinal - 1
        n400 == n0 \div 146097
        r400 == n0 % 146097
        n100 == r400 \div 36524
        r100 == r400 % 36524
        n4   == r100 \div 1461
        r4   == r100 % 1461
        n1   == r4 \div 365
        n    == r4 % 365
        year == n400 * 400 + 1 + n100 * 100 + n4 * 4 + n1
        leapyear == n1 = 3 /\ (n4 # 24 \/ n100 = 3)
        before(m) == days_before_month(IF leapyear THEN 4 ELSE 1, m)
        guess == (n + 50) \div 32
        month == IF before(guess) > n THEN guess - 1 ELSE guess
    IN  IF n1 = 4 \/ n100 = 4 THEN <<year - 1, 12, 31>>
        ELSE <<year, month, n - before(month) + 1>>

\* date.toordinal: the proleptic Gregorian ordinal of a date.
ymd2ord(y, m, d) ==
    (y - 1) * 365 + (y - 1) \div 4 - (y - 1) \div 100 + (y - 1) \div 400
    + days_before_month(y, m) + d

\* d + timedelta(days=n): through the ordinal, the time of day kept.
add_days(d, n) ==
    LET ymd == ord2ymd(ymd2ord(d.year, d.month, d.day) + n)
    IN  [d EXCEPT !.year = ymd[1], !.month = ymd[2], !.day = ymd[3]]

\* datetime.fromtimestamp(ts) for an int ts, in a local zone `offset`
\* seconds east of UTC.
fromtimestamp(ts, offset) ==
    LET local == ts + offset
        ymd   == ord2ymd(719163 + local \div 86400)
        secs  == local % 86400
    IN  datetime(ymd[1], ymd[2], ymd[3],
                 secs \div 3600, (secs % 3600) \div 60, secs % 60)

(***************************************************************************)
(* vernomic.py: class Vernomic                                             *)
(***************************************************************************)
NoInstance == [kind |-> None]

\* The fields the dataclass declares, which are the keywords its generated
\* __init__ accepts.
FIELDS == {"root_name", "suffix_name", "file_extension", "date"}

\* A numeric date is written [ts |-> seconds]; a datetime is a record of
\* its fields.
is_numeric(date) == "ts" \in DOMAIN date

\* __post_init__: a numeric timestamp becomes a local datetime.
post_init(date, offset) ==
    IF is_numeric(date) THEN fromtimestamp(date.ts, offset) ELSE date

\* The outcome of a call: a value returned or an exception raised.
Return(op, val) == [op |-> op, exc |-> "", val |-> val]

Raise(op, exc) == [op |-> op, exc |-> exc, val |-> <<>>]

\* A faulty variant of default_of_date: the clock read at each construction.
default_of_date_per_call == now

\* The default of field `date`: the value the class body computed.
default_of_date == date_default

\* The generated __init__ followed by __post_init__, for keyword arguments
\* kw: the instance built, or NoInstance when __init__ raises TypeError.
Vernomic(kw, offset) ==
    IF ~(DOMAIN kw \subseteq FIELDS) \/ "root_name" \notin DOMAIN kw
    THEN NoInstance
    ELSE [kind           |-> "Vernomic",
          root_name      |-> kw.root_name,
          suffix_name    |-> IF "suffix_name" \in DOMAIN kw
                             THEN kw.suffix_name ELSE <<>>,
          file_extension |-> IF "file_extension" \in DOMAIN kw
                             THEN kw.file_extension ELSE <<>>,
          date           |-> post_init(IF "date" \in DOMAIN kw
                                       THEN kw.date ELSE default_of_date,
                                       offset)]

\* Lines 61-63 of cycle_and_day, for the day of the year found.
cycle_and_day_of(day_of_year) ==
    [cycle_number |-> (day_of_year - 1) \div 28,
     day_of_cycle |-> (day_of_year - 1) % 28]

\* A faulty variant of cycle_and_day: the 1-based day of the year used as it is.
cycle_and_day_one_based(v) ==
    [cycle_number |-> tm_yday(v.date) \div 28,
     day_of_cycle |-> tm_yday(v.date) % 28]

\* A faulty variant of cycle_and_day: cycles of 26 days.
cycle_and_day_26(v) ==
    [cycle_number |-> (tm_yday(v.date) - 1) \div 26,
     day_of_cycle |-> (tm_yday(v.date) - 1) % 26]

cycle_and_day(v) == cycle_and_day_of(tm_yday(v.date))

\* Lines 76-78 of day_name, for the indexes `info` that line 75 read.
day_name_of(info) ==
    IF ~in_range(CYCLE_NAMES, info.cycle_number)
       \/ ~in_range(CYCLE_DAYS, info.day_of_cycle)
    THEN Raise("day_name", IndexError)
    ELSE Return("day_name", getitem(CYCLE_NAMES, info.cycle_number)
                            \o <<"_">> \o getitem(CYCLE_DAYS, info.day_of_cycle))

\* The two indexes of `info` exchanged.
swapped(info) == [cycle_number |-> info.day_of_cycle,
                  day_of_cycle |-> info.cycle_number]

\* The cycle index of `info` wrapped at 13.
mod13(info) == [info EXCEPT !.cycle_number = @ % 13]

\* A faulty variant of day_name: the two indexes swapped.
day_name_swapped(v) == day_name_of(swapped(cycle_and_day(v)))

\* A faulty variant of day_name: the cycle index wrapped at 13.
day_name_mod13(v) == day_name_of(mod13(cycle_and_day(v)))

day_name(v) == day_name_of(cycle_and_day(v))

version_time(v) == format_02d(v.date.hour) \o format_02d(v.date.minute)

version_year(v) == last_two(str_int(v.date.year))

\* Lines 113-116 of vernomic_id, for the outcome `dn` of day_name; the
\* suffix segment is appended when `with_suffix_` holds.
vernomic_id_of(v, dn, with_suffix_) ==
    IF dn.exc # "" THEN Raise("vernomic_id", dn.exc)
    ELSE Return("vernomic_id",
                join(<<"_">>,
                     <<v.root_name, version_year(v), dn.val, version_time(v)>>
                     \o (IF with_suffix_ THEN <<v.suffix_name>> ELSE <<>>)))

\* A faulty variant of vernomic_id: the suffix segment appended even when empty.
vernomic_id_always_suffix(v) == vernomic_id_of(v, day_name(v), TRUE)

vernomic_id(v) == vernomic_id_of(v, day_name(v), v.suffix_name # <<>>)

\* Lines 129-132 of file_name, for the outcome `id` of vernomic_id and the
\* extension `ext` as stripped.
file_name_of(v, id, ext) ==
    IF v.file_extension = <<>> THEN Raise("file_name", "ValueError")
    ELSE IF id.exc # "" THEN Raise("file_name", id.exc)
    ELSE Return("file_name", id.val \o <<".">> \o ext)

\* s with one leading c, if any, removed.
strip_one(s, c) == IF s # <<>> /\ Head(s) = c THEN Tail(s) ELSE s

\* A faulty variant of file_name: only one leading dot removed.
file_name_one_dot(v) ==
    file_name_of(v, vernomic_id(v), strip_one(v.file_extension, "."))

file_name(v) == file_name_of(v, vernomic_id(v), lstrip(v.file_extension, "."))

\* Line 208 of __str__, for the outcome `id` of vernomic_id.
str_of(id) == [id EXCEPT !.op = "str"]

\* __str__
str(v) == str_of(vernomic_id(v))

\* datetime.isoformat() of a datetime without microseconds.
isoformat(d) ==
    format_04d(d.year) \o <<"-">> \o format_02d(d.month) \o <<"-">>
    \o format_02d(d.day) \o <<"T">> \o format_02d(d.hour) \o <<":">>
    \o format_02d(d.minute) \o <<":">> \o format_02d(d.second)

(***************************************************************************)
(* pathlib and the filesystem.  A Path is the sequence of its parts; the   *)
(* filesystem maps absolute paths, as sequences of names below its root,   *)
(* to entries; the working directory is cwd.                               *)
(***************************************************************************)
cwd == <<<<"e","x","a","m","p","l","e","s">>>>

DotDot == <<".", ".">>

\* Path(s) for a relative s: the parts between separators, empty parts and
\* "." parts dropped.
Path(s) == SelectSeq(split(s, "/"), LAMBDA part : part # <<>> /\ part # <<".">>)

\* The absolute path a relative Path names: ".." steps up from where the
\* walk stands, and the root is its own parent.
RECURSIVE resolve(_, _)
resolve(base, p) ==
    IF p = <<>> THEN base
    ELSE IF Head(p) = DotDot
         THEN resolve(IF base = <<>> THEN <<>>
                      ELSE SubSeq(base, 1, Len(base) - 1), Tail(p))
         ELSE resolve(Append(base, Head(p)), Tail(p))

abs(p) == resolve(cwd, p)

exists(f, p) == abs(p) \in DOMAIN f

is_dir(f, p) == exists(f, p) /\ f[abs(p)].kind = "dir"

\* p.parent
parent_of(p) == IF p = <<>> THEN <<>> ELSE SubSeq(p, 1, Len(p) - 1)

\* p.name
name_of(p) == IF p = <<>> THEN <<>> ELSE p[Len(p)]

\* p.suffix: the last dot of the name and what follows, unless that dot
\* opens or ends the name.
suffix_of(p) ==
    LET name == name_of(p)
        i    == rfind(name, ".")
    IN  IF 0 < i /\ i < Len(name) - 1
        THEN SubSeq(name, i + 1, Len(name)) ELSE <<>>

\* p.with_suffix(suffix) for a p that has a name and no suffix.
with_suffix(p, suffix) == Append(parent_of(p), name_of(p) \o suffix)

\* Whether an ancestor of the absolute path q is a regular file.
under_file(f, q) ==
    \E k \in 1..(Len(q) - 1) :
        SubSeq(q, 1, k) \in DOMAIN f /\ f[SubSeq(q, 1, k)].kind = "file"

\* mkdir(parents=True, exist_ok=True) of the absolute path q, no part of
\* which is a regular file: q and its missing ancestors made directories.
mkdir_parents(f, q) ==
    [x \in DOMAIN f \cup {SubSeq(q, 1, k) : k \in 1..Len(q)} |->
        IF x \in DOMAIN f THEN f[x] ELSE [kind |-> "dir"]]

\* write_text(text) at the absolute path q: the file created or
\* overwritten.
write_text(f, q, text) ==
    [x \in DOMAIN f \cup {q} |->
        IF x = q THEN [kind |-> "file", data |-> text] ELSE f[x]]

YamlSuffix == <<".","y","a","m","l">>

\* Lines 150-173 of to_yaml, for the values the properties returned: the
\* metadata mapping, in insertion order, or the exception a property raised
\* while it was assembled.
to_yaml_data_of(v, description, info, id, fn, dn) ==
    IF id.exc # "" THEN Raise("to_yaml", id.exc)
    ELSE IF fn.exc # "" THEN Raise("to_yaml", fn.exc)
    ELSE Return("to_yaml",
            << <<"vernomic_id", id.val>>,
               <<"file_name", fn.val>>,
               <<"root_name", v.root_name>>,
               <<"suffix_name", v.suffix_name>>,
               <<"file_extension", v.file_extension>>,
               <<"datetime_iso", isoformat(v.date)>>,
               <<"year", v.date.year>>,
               <<"month", v.date.month>>,
               <<"day", v.date.day>>,
               <<"hour", v.date.hour>>,
               <<"minute", v.date.minute>>,
               <<"second", v.date.second>>,
               <<"cycle_number", info.cycle_number>>,
               <<"day_of_cycle", info.day_of_cycle>>,
               <<"cycle_name", getitem(CYCLE_NAMES, info.cycle_number)>>,
               <<"day_name", getitem(CYCLE_DAYS, info.day_of_cycle)>>,
               <<"version_year", version_year(v)>>,
               <<"version_day", dn.val>>,
               <<"version_time", version_time(v)>> >>
            \o (IF description # <<>>
                THEN << <<"description", description>> >> ELSE <<>>))

to_yaml_data(v, description) ==
    to_yaml_data_of(v, description, cycle_and_day(v), vernomic_id(v),
                    file_name(v), day_name(v))

\* Lines 184-185 of to_yaml: ".yaml" given to a Path without suffix.
ensure_suffix(p) ==
    IF suffix_of(p) = <<>> THEN with_suffix(p, YamlSuffix) ELSE p

\* Lines 175-185 of to_yaml: the Path the metadata goes to.
to_yaml_target(v, f, path) ==
    ensure_suffix(IF endswith(path, "/") \/ is_dir(f, Path(path))
                  THEN Append(Path(path), vernomic_id(v).val \o YamlSuffix)
                  ELSE Path(path))

\* Lines 188-192 of to_yaml: the exception the parent directory raises, if
\* it cannot be one.
parent_error(f, q) ==
    IF q \in DOMAIN f /\ f[q].kind # "dir" THEN "FileExistsError"
    ELSE IF under_file(f, Append(q, <<"x">>)) THEN "NotADirectoryError"
    ELSE ""

\* Line 197 of to_yaml on filesystem g, where the parent is a directory.
write_or_fail(g, q, data) ==
    IF q \in DOMAIN g /\ g[q].kind = "dir"
    THEN [exc |-> "IsADirectoryError", fs |-> g]
    ELSE [exc |-> "", fs |-> write_text(g, q, data)]

\* Lines 187-197 of to_yaml, for the absolute target q: the parent
\* validated and created, the file written.  The outcome is the exception,
\* if any, and the filesystem left.
to_yaml_write(f, q, data) ==
    IF parent_error(f, parent_of(q)) # ""
    THEN [exc |-> parent_error(f, parent_of(q)), fs |-> f]
    ELSE write_or_fail(mkdir_parents(f, parent_of(q)), q, data)

\* The order of to_yaml: the metadata assembled first, and nothing touched
\* when that raises.
data_first(f, q, data) ==
    IF data.exc # "" THEN [exc |-> data.exc, fs |-> f]
    ELSE to_yaml_write(f, q, data.val)

\* The faulty order: the parent directory validated and created first,
\* the metadata assembled after.
mkdir_first(f, q, data) ==
    IF parent_error(f, parent_of(q)) # ""
    THEN [exc |-> parent_error(f, parent_of(q)), fs |-> f]
    ELSE IF data.exc # ""
    THEN [exc |-> data.exc, fs |-> mkdir_parents(f, parent_of(q))]
    ELSE to_yaml_write(f, q, data.val)

\* A faulty variant of to_yaml: the target resolved and its directory
\* created before the metadata is assembled.
to_yaml_mkdir_first(v, f, path, description) ==
    mkdir_first(f, abs(to_yaml_target(v, f, path)),
                to_yaml_data(v, description))

\* to_yaml(path, description) on filesystem f.
to_yaml(v, f, path, description) ==
    data_first(f, abs(to_yaml_target(v, f, path)),
               to_yaml_data(v, description))

(***************************************************************************)
(* Inputs.                                                                 *)
(***************************************************************************)
Years == FirstYear..(FirstYear + NumYears - 1)

TimesOfDay == << <<0, 0, 0>>, <<9, 5, 7>>, <<23, 59, 59>>, <<12, 30, 0>>,
                 <<7, 0, 30>>, <<0, 59, 1>> >>

Times == {TimesOfDay[k] : k \in 1..NumTimes}

\* Every valid calendar day of the years, as <<year, month, day>>.
Days == {ymd \in Years \X (1..12) \X (1..31) :
            ymd[3] <= days_in_month(ymd[1], ymd[2])}

Dates == {datetime(ymd[1], ymd[2], ymd[3], t[1], t[2], t[3]) :
            ymd \in Days, t \in Times}

RootNames == {<<"m","o","d","e","l">>, <<"m","_","x">>}

SuffixNames == {<<>>, <<"v","1">>}

FileExtensions == {<<>>, <<"h","5">>, <<".","h","5">>, <<".",".","h","5">>}

\* Epoch seconds of 2023-12-20T00:00:00Z and of 2024-02-29T23:30:00Z.
Timestamps == {1703030400, 1709249400}

\* Local zones, in seconds east of UTC.
UtcOffsets == {0, 3600, -18000}

\* The moment the class body ran: datetime.now() at import.
LoadTime == datetime(FirstYear, 12, 31, 23, 58, 30)

\* Keyword arguments with every field given.
FullArgs(dates) ==
    {[root_name |-> r, suffix_name |-> s, file_extension |-> e, date |-> d] :
        r \in RootNames, s \in SuffixNames, e \in FileExtensions, d \in dates}

\* Keyword arguments that leave fields to their defaults, pass a numeric
\* date, or leave out root_name.
SparseArgs ==
         {[root_name |-> r, date |-> datetime(FirstYear, 12, 20, 0, 0, 0)] :
             r \in RootNames}
    \cup {[root_name |-> r] : r \in RootNames}
    \cup {[root_name |-> r, file_extension |-> e, date |-> [ts |-> n]] :
             r \in RootNames, e \in FileExtensions, n \in Timestamps}
    \cup {[suffix_name |-> s] : s \in SuffixNames}

\* The keyword arguments of examples/example1.py and example2.py.
ExampleArgs ==
    {[root_name |-> <<"m","o","d","e","l">>, suffix_name |-> s,
      file_extension |-> <<".","h","5">>, display_version_time |-> b,
      date |-> datetime(FirstYear + 1, 12, 25, t[1], t[2], t[3]),
      description |-> None, divide_char |-> c] :
        s \in SuffixNames, b \in BOOLEAN, t \in Times,
        c \in {<<"_">>, <<"-">>}}

(***************************************************************************)
(* Actions: one per call on the class.                                     *)
(***************************************************************************)
\* Vernomic(**kw)
New(kw, offset) ==
    /\ self = NoInstance
    /\ ret.op # "__init__"
    /\ self' = Vernomic(kw, offset)
    /\ ret' = [op  |-> "__init__",
               exc |-> IF self' = NoInstance THEN "TypeError" ELSE "",
               val |-> <<>>,
               kw  |-> kw]
    /\ UNCHANGED <<fs, now, date_default, log>>

Alive == self.kind = "Vernomic"

Get_cycle_and_day ==
    /\ Alive
    /\ ret' = Return("cycle_and_day", cycle_and_day(self))
    /\ UNCHANGED <<self, fs, now, date_default, log>>

Get_day_name ==
    /\ Alive
    /\ ret' = day_name(self)
    /\ UNCHANGED <<self, fs, now, date_default, log>>

Get_version_time ==
    /\ Alive
    /\ ret' = Return("version_time", version_time(self))
    /\ UNCHANGED <<self, fs, now, date_default, log>>

Get_version_year ==
    /\ Alive
    /\ ret' = Return("version_year", version_year(self))
    /\ UNCHANGED <<self, fs, now, date_default, log>>

Get_vernomic_id ==
    /\ Alive
    /\ ret' = vernomic_id(self)
    /\ UNCHANGED <<self, fs, now, date_default, log>>

Get_file_name ==
    /\ Alive
    /\ ret' = file_name(self)
    /\ UNCHANGED <<self, fs, now, date_default, log>>

Call_str ==
    /\ Alive
    /\ ret' = str(self)
    /\ UNCHANGED <<self, fs, now, date_default, log>>

EmptyFs == (<<>> :> [kind |-> "dir"])

Imported == [op |-> "import", exc |-> "", val |-> <<>>]

(***************************************************************************)
(* Spec: one instance, built from any keyword arguments, and its           *)
(* properties read in any order.                                           *)
(***************************************************************************)
Init ==
    /\ self = NoInstance
    /\ ret = Imported
    /\ fs = EmptyFs
    /\ now = LoadTime
    /\ date_default = LoadTime
    /\ log = <<>>

\* The local zone matters to a numeric date only.
Zones(kw) ==
    IF "date" \in DOMAIN kw /\ is_numeric(kw.date) THEN UtcOffsets ELSE {0}

Construct ==
    /\ self = NoInstance
    /\ ret.op # "__init__"
    /\ \E kw \in FullArgs(Dates) \cup SparseArgs \cup ExampleArgs :
          \E offset \in Zones(kw) : New(kw, offset)

Next ==
    \/ Construct
    \/ Get_cycle_and_day
    \/ Get_day_name
    \/ Get_version_time
    \/ Get_version_year
    \/ Get_vernomic_id
    \/ Get_file_name
    \/ Call_str

Spec == Init /\ [][Next]_vars


(***************************************************************************)
(* Properties under Spec.                                                  *)
(***************************************************************************)
Range(s) == {s[k] : k \in 1..Len(s)}

IsSorted(s) == \A k \in 1..(Len(s) - 1) : StrLess(s[k], s[k + 1])

Digit(n) == Digits[n + 1]

\* C3: for every valid date, day_name is
\* CYCLE_NAMES[cycle_number % 14] + "_" + CYCLE_DAYS[day_of_cycle % 28] with
\* the indexes of cycle_and_day; the lists are the sorted 14- and 28-entry
\* constants; the lookup raises no IndexError; and the result splits on "_"
\* into exactly two tokens, a cycle name and then a day name.
C3_DayNameLookup ==
    /\ Len(CYCLE_NAMES) = 14 /\ IsSorted(CYCLE_NAMES)
    /\ Len(CYCLE_DAYS) = 28 /\ IsSorted(CYCLE_DAYS)
    /\ ret.op = "day_name" =>
          LET info == cycle_and_day(self)
          IN  /\ ret.exc = ""
              /\ ret.val = CYCLE_NAMES[(info.cycle_number % 14) + 1] \o <<"_">>
                           \o CYCLE_DAYS[(info.day_of_cycle % 28) + 1]
              /\ Len(split(ret.val, "_")) = 2
              /\ split(ret.val, "_")[1] \in Range(CYCLE_NAMES)
              /\ split(ret.val, "_")[2] \in Range(CYCLE_DAYS)

\* day_name was read on the last day of a leap year.
C3_Witness ==
    /\ ret.op = "day_name"
    /\ ret.exc = ""
    /\ self.date.month = 12 /\ self.date.day = 31 /\ is_leap(self.date.year)

\* C4: with the default divider, for a 4-digit year and a root_name and
\* suffix_name free of "_", vernomic_id and str() are equal and split on "_"
\* into root_name, the last two digits of the year, a cycle name, a day
\* name, the zero-padded HHMM and, exactly when suffix_name is non-empty,
\* suffix_name as the sixth and last token.
C4_IdTokens ==
    (/\ ret.op \in {"vernomic_id", "str"}
     /\ self.date.year \in 1000..9999
     /\ "_" \notin Range(self.root_name)
     /\ "_" \notin Range(self.suffix_name)) =>
        /\ ret.exc = ""
        /\ ret.val = vernomic_id(self).val
        /\ LET tok == split(ret.val, "_")
               d   == self.date
           IN  /\ Len(tok) = IF self.suffix_name # <<>> THEN 6 ELSE 5
               /\ tok[1] = self.root_name
               /\ tok[2] = <<Digit((d.year \div 10) % 10), Digit(d.year % 10)>>
               /\ tok[3] \in Range(CYCLE_NAMES)
               /\ tok[4] \in Range(CYCLE_DAYS)
               /\ tok[5] = <<Digit(d.hour \div 10), Digit(d.hour % 10),
                             Digit(d.minute \div 10), Digit(d.minute % 10)>>
               /\ self.suffix_name # <<>> => tok[6] = self.suffix_name

\* str() was taken of an instance with a suffix, at 09:05.
C4_Witness ==
    /\ ret.op = "str"
    /\ ret.exc = ""
    /\ self.root_name = <<"m","o","d","e","l">>
    /\ self.suffix_name = <<"v","1">>
    /\ self.date.hour = 9 /\ self.date.minute = 5

\* C5, as amended: file_name raises ValueError exactly when file_extension
\* is empty and leaves the instance as it was; for a non-empty
\* file_extension it returns vernomic_id + "." + file_extension with ALL of
\* the extension's leading dots removed.
C5_FileNameAllDots ==
    [][ret'.op = "file_name" =>
          /\ self' = self
          /\ (ret'.exc = "ValueError") <=> (self.file_extension = <<>>)
          /\ self.file_extension # <<>> =>
                LET e == self.file_extension
                IN  /\ ret'.exc = ""
                    /\ \E k \in 0..Len(e) :
                          /\ \A h \in 1..k : e[h] = "."
                          /\ k < Len(e) => e[k + 1] # "."
                          /\ ret'.val = vernomic_id(self).val \o <<".">>
                                        \o SubSeq(e, k + 1, Len(e))]_vars

\* file_name was read with file_extension "..h5".
C5_Witness ==
    /\ ret.op = "file_name"
    /\ ret.exc = ""
    /\ self.file_extension = <<".",".","h","5">>

\* C5, as claimed: the extension's leading dot, if any, is removed.
C5_FileNameOneDot ==
    [][ret'.op = "file_name" =>
          /\ self' = self
          /\ (ret'.exc = "ValueError") <=> (self.file_extension = <<>>)
          /\ self.file_extension # <<>> =>
                LET e == self.file_extension
                IN  /\ ret'.exc = ""
                    /\ ret'.val = vernomic_id(self).val \o <<".">>
                                  \o (IF e[1] = "." THEN Tail(e) ELSE e)]_vars

\* C7: an instance can be built with divide_char and display_version_time,
\* and vernomic_id is then the divide_char-join of root_name, version_year,
\* the "_"-joined name pair, version_time if display_version_time, and
\* suffix_name if non-empty.
C7_DivideChar ==
    (ret.op = "__init__" /\ "divide_char" \in DOMAIN ret.kw) =>
        /\ ret.exc = ""
        /\ self # NoInstance
        /\ vernomic_id(self).val =
              join(ret.kw.divide_char,
                   <<self.root_name, version_year(self), day_name(self).val>>
                   \o (IF ret.kw.display_version_time
                       THEN <<version_time(self)>> ELSE <<>>)
                   \o (IF self.suffix_name # <<>>
                       THEN <<self.suffix_name>> ELSE <<>>))


(***************************************************************************)
(* SpecWalk: the loop of examples/examples.py and of the tests, started on *)
(* Jan 1 and run over the whole year: each pass builds the instance of the *)
(* next day, at some time of day and under some names, reads its           *)
(* cycle_and_day and day_name and prints it.  log[1] holds the start of    *)
(* the walk and every later entry what one pass read.                      *)
(***************************************************************************)
InitWalk ==
    /\ self = NoInstance
    /\ ret = Imported
    /\ fs = EmptyFs
    /\ now = LoadTime
    /\ date_default = LoadTime
    /\ \E y \in Years : log = <<[start |-> datetime(y, 1, 1, 0, 0, 0)]>>

\* The names the walk builds under: those of examples/examples.py, and a
\* set that differs from them in every field.
WalkNames == {<<<<"m","o","d","e","l">>, <<>>, <<>>>>,
              <<<<"m","_","x">>, <<"v","1">>, <<".","h","5">>>>}

Loop ==
    LET start == log[1].start
        i     == Len(log) - 1
        day   == add_days(start, i)
    IN  /\ day.year = start.year
        /\ \E t \in Times, n \in WalkNames :
              /\ self' = Vernomic(
                    [root_name |-> n[1], suffix_name |-> n[2],
                     file_extension |-> n[3],
                     date |-> [day EXCEPT !.hour = t[1], !.minute = t[2],
                                          !.second = t[3]]], 0)
              /\ ret' = str(self')
              /\ log' = Append(log, [cycle_and_day |-> cycle_and_day(self'),
                                     day_name      |-> day_name(self')])
        /\ UNCHANGED <<fs, now, date_default>>

NextWalk == Loop

SpecWalk == InitWalk /\ [][NextWalk]_vars

\* The 1-based number of the day the walk is on: Jan 1 is pass 1.
WalkDay == Len(log) - 1

Last == log[Len(log)]

\* C1: cycle_number = (day_of_year - 1) // 28 and
\* day_of_cycle = (day_of_year - 1) % 28, where day_of_year counts the days
\* of the real calendar from Jan 1 (so Dec 31 is day 365, or 366 in a leap
\* year), whatever the time of day, root_name, suffix_name and
\* file_extension.
C1_CycleAndDay ==
    WalkDay >= 1 =>
        /\ cycle_and_day(self) = [cycle_number |-> (WalkDay - 1) \div 28,
                                  day_of_cycle |-> (WalkDay - 1) % 28]
        /\ Last.cycle_and_day = cycle_and_day(self)
        /\ (self.date.month = 12 /\ self.date.day = 31) =>
              WalkDay = IF is_leap(self.date.year) THEN 366 ELSE 365

\* Dec 31 of a leap year, late in the day, under a root_name with "_".
C1_Witness ==
    /\ WalkDay = 366
    /\ self.date.month = 12 /\ self.date.day = 31
    /\ self.date.hour = 9
    /\ self.root_name = <<"m","_","x">>
    /\ Last.cycle_and_day = [cycle_number |-> 13, day_of_cycle |-> 1]

\* C2: 0 <= day_of_cycle < 28 and 0 <= cycle_number <= 13 on every date,
\* day 366 included, and cycle_number 13 only on the one or two days after
\* day 364, where day_of_cycle is 0 or 1.
C2_Ranges ==
    WalkDay >= 1 =>
        LET c == Last.cycle_and_day
        IN  /\ 0 <= c.day_of_cycle /\ c.day_of_cycle < 28
            /\ 0 <= c.cycle_number /\ c.cycle_number <= 13
            /\ c.cycle_number = 13 =>
                  (WalkDay > 364 /\ c.day_of_cycle \in {0, 1})

\* Day 366 of a leap year: cycle 13, day 1.
C2_Witness ==
    /\ WalkDay = 366
    /\ Last.cycle_and_day = [cycle_number |-> 13, day_of_cycle |-> 1]

\* C9: Jan 1 is (0, 0); each next day either adds 1 to day_of_cycle and
\* keeps cycle_number, or goes from day_of_cycle 27 to 0 and adds 1 to
\* cycle_number; so the day just walked shares its pair with no earlier day
\* of the year and, the names of each list being distinct, shares its
\* day_name with none.
C9_WalkOfTheYear ==
    /\ Cardinality(Range(CYCLE_NAMES)) = Len(CYCLE_NAMES)
    /\ Cardinality(Range(CYCLE_DAYS)) = Len(CYCLE_DAYS)
    /\ WalkDay >= 1 =>
          /\ log[2].cycle_and_day = [cycle_number |-> 0, day_of_cycle |-> 0]
          /\ Last.day_name.exc = ""
          /\ \A k \in 2..(Len(log) - 1) :
                /\ log[k].cycle_and_day # Last.cycle_and_day
                /\ log[k].day_name.val # Last.day_name.val
    /\ WalkDay >= 2 =>
          LET p == log[Len(log) - 1].cycle_and_day
              c == Last.cycle_and_day
          IN  \/ /\ c.day_of_cycle = p.day_of_cycle + 1
                 /\ c.cycle_number = p.cycle_number
              \/ /\ p.day_of_cycle = 27
                 /\ c.day_of_cycle = 0
                 /\ c.cycle_number = p.cycle_number + 1

\* A whole leap year walked, the last step a reset into cycle 13.
C9_Witness ==
    /\ WalkDay = 365
    /\ is_leap(log[1].start.year)
    /\ log[Len(log) - 1].cycle_and_day = [cycle_number |-> 12, day_of_cycle |-> 27]
    /\ Last.cycle_and_day = [cycle_number |-> 13, day_of_cycle |-> 0]


(***************************************************************************)
(* SpecClock: a driver that imports the module, lets time pass and builds  *)
(* instances without passing a date.  log[1] holds the clock reading at    *)
(* import and the number of clock advances since; every later entry holds  *)
(* an instance and the clock reading at which it was built.                *)
(***************************************************************************)
InitClock ==
    /\ self = NoInstance
    /\ ret = Imported
    /\ fs = EmptyFs
    /\ now = LoadTime
    /\ date_default = now
    /\ log = <<[loaded_at |-> now, ticks |-> 0]>>

Tick_minute ==
    /\ log[1].ticks < MaxTicks
    /\ now' = next_minute(now)
    /\ log' = [log EXCEPT ![1].ticks = @ + 1]
    /\ UNCHANGED <<self, ret, fs, date_default>>

Tick_day ==
    /\ log[1].ticks < MaxTicks
    /\ now' = next_day(now)
    /\ log' = [log EXCEPT ![1].ticks = @ + 1]
    /\ UNCHANGED <<self, ret, fs, date_default>>

\* Vernomic(root_name=..., suffix_name=...): no date given.
Build ==
    /\ Len(log) - 1 < MaxBuilt
    /\ \E s \in SuffixNames :
          LET kw == [root_name |-> <<"m","o","d","e","l">>, suffix_name |-> s]
          IN  /\ self' = Vernomic(kw, 0)
              /\ ret' = [op |-> "__init__", exc |-> "", val |-> <<>>, kw |-> kw]
              /\ log' = Append(log, [at |-> now, v |-> self'])
    /\ UNCHANGED <<fs, now, date_default>>

NextClock == Tick_minute \/ Tick_day \/ Build

SpecClock == InitClock /\ [][NextClock]_vars

\* C10: the default of `date` is the clock reading at import, not at
\* construction: every instance built without a date carries that reading,
\* however far the clock has advanced, so two such instances of the same
\* names have the same vernomic_id whenever they were built.
C10_DefaultDateFrozen ==
    /\ date_default = log[1].loaded_at
    /\ \A k \in 2..Len(log) :
          /\ log[k].v.date = log[1].loaded_at
          /\ \A j \in 2..Len(log) :
                (/\ log[j].v.root_name = log[k].v.root_name
                 /\ log[j].v.suffix_name = log[k].v.suffix_name
                 /\ log[j].v.file_extension = log[k].v.file_extension) =>
                    vernomic_id(log[j].v) = vernomic_id(log[k].v)

\* Two instances of the same names built on different days, the second in
\* the year after the import.
C10_Witness ==
    /\ Len(log) = 3
    /\ log[2].v.suffix_name = log[3].v.suffix_name
    /\ log[2].at.day # log[3].at.day
    /\ log[3].at.year # log[1].loaded_at.year
    /\ log[3].at.minute # log[1].loaded_at.minute


(***************************************************************************)
(* SpecYaml: one instance and its exports, as examples/example1.py and     *)
(* example2.py make them, on a filesystem that holds the working           *)
(* directory examples/, a regular file examples/notes.txt and, in one of   *)
(* the two initial filesystems, a directory examples/out.                  *)
(***************************************************************************)
NotesTxt == <<"n","o","t","e","s",".","t","x","t">>

Out == <<"o","u","t">>

FsBare ==
    (<<>> :> [kind |-> "dir"]) @@ (cwd :> [kind |-> "dir"])
    @@ (Append(cwd, NotesTxt) :> [kind |-> "file", data |-> <<>>])

FsWithOut == FsBare @@ (Append(cwd, Out) :> [kind |-> "dir"])

\* The path arguments: the default "./", "out/", "out", "out/meta",
\* "out/run.v1", "../test_output/", "notes.txt/" and "notes.txt/sub/".
PathArgs ==
    {<<".","/">>,
     Out \o <<"/">>,
     Out,
     Out \o <<"/","m","e","t","a">>,
     Out \o <<"/","r","u","n",".","v","1">>,
     <<".",".","/","t","e","s","t","_","o","u","t","p","u","t","/">>,
     NotesTxt \o <<"/">>,
     NotesTxt \o <<"/","s","u","b","/">>}

Descriptions == {<<>>, <<"n","o","t","e">>}

YamlDates == {datetime(FirstYear + 1, 12, 31, 9, 5, 7)}

\* Keyword arguments: only root_name and date, or with a suffix and an
\* extension as well.
YamlArgs ==
         {[root_name |-> <<"m","o","d","e","l">>, date |-> d] : d \in YamlDates}
    \cup {[root_name |-> <<"m","o","d","e","l">>, suffix_name |-> s,
           file_extension |-> e, date |-> d] :
             s \in SuffixNames, e \in {<<>>, <<".","h","5">>}, d \in YamlDates}

InitYaml ==
    /\ self = NoInstance
    /\ ret = Imported
    /\ fs \in {FsBare, FsWithOut}
    /\ now = LoadTime
    /\ date_default = LoadTime
    /\ log = <<>>

ConstructYaml ==
    /\ self = NoInstance
    /\ ret.op # "__init__"
    /\ \E kw \in YamlArgs : New(kw, 0)

Call_to_yaml ==
    /\ Alive
    /\ \E path \in PathArgs, description \in Descriptions :
          LET out == to_yaml(self, fs, path, description)
          IN  /\ fs' = out.fs
              /\ ret' = [op |-> "to_yaml", exc |-> out.exc, val |-> <<>>,
                         path |-> path]
    /\ UNCHANGED <<self, now, date_default, log>>

NextYaml == ConstructYaml \/ Call_to_yaml

SpecYaml == InitYaml /\ [][NextYaml]_vars

\* The value of `key` in a metadata mapping.
Field(data, key) ==
    LET k == CHOOSE j \in 1..Len(data) : data[j][1] = key IN data[k][2]

\* A path argument that denotes an existing directory or ends in the
\* separator, and has no regular file among its parts.
DirectoryTarget(f, path) ==
    /\ endswith(path, "/") \/ is_dir(f, Path(path))
    /\ ~under_file(f, abs(Append(Path(path), <<"x">>)))

\* C6: to_yaml of any constructed instance to a directory path leaves a
\* file named <vernomic_id>.yaml in that directory, whose vernomic_id
\* field is the instance's string form.
C6_ExportToDirectory ==
    (ret.op = "to_yaml" /\ DirectoryTarget(fs, ret.path)) =>
        LET target == abs(Append(Path(ret.path),
                                 vernomic_id(self).val \o YamlSuffix))
        IN  /\ ret.exc = ""
            /\ target \in DOMAIN fs
            /\ fs[target].kind = "file"
            /\ Field(fs[target].data, "vernomic_id") = str(self).val

\* C8: to_yaml of an instance without file_extension raises the ValueError
\* of file_name and leaves the filesystem and the instance as they were,
\* whatever the path.
C8_NoExtensionNoWrite ==
    [][(/\ ret'.op = "to_yaml"
        /\ self.kind = "Vernomic"
        /\ self.file_extension = <<>>) =>
            /\ ret'.exc = "ValueError"
            /\ fs' = fs
            /\ self' = self]_vars

\* to_yaml("../test_output/") failed on an instance without file_extension
\* and test_output does not exist.
C8_Witness ==
    /\ ret.op = "to_yaml"
    /\ ret.exc = "ValueError"
    /\ ret.path = <<".",".","/","t","e","s","t","_","o","u","t","p","u","t","/">>
    /\ self.file_extension = <<>>
    /\ <<<<"t","e","s","t","_","o","u","t","p","u","t">>>> \notin DOMAIN fs

====
